---- MODULE Spec2Model ----
(***************************************************************************)
(* A model of EBSight (src/ebsight.py): the per-volume snapshot analysis,  *)
(* the cost model, the CloudWatch metric aggregation, the main loop over   *)
(* the attached volumes and the consolidated summary.                      *)
(*                                                                         *)
(* Python floats are IEEE-754 binary64.  They are modelled bit-exactly:    *)
(* a float is a sign, a 53-bit mantissa and an exponent, and every         *)
(* arithmetic operation rounds to nearest, ties to even, as the hardware   *)
(* does.  Mantissas do not fit TLC's integers, so they are kept as         *)
(* little-endian sequences of Base-sized limbs.                            *)
(***************************************************************************)
EXTENDS Integers, Sequences, FiniteSets, TLC

----------------------------------------------------------------------------
(* Natural numbers of any size: little-endian limb sequences, no leading   *)
(* zero limb; <<>> is 0.                                                   *)
(*                                                                         *)
(* An operator that reads an argument more than once binds it first, as in *)
(* CHOOSE r \in {body : a \in {a0}} : TRUE, which is the value of body     *)
(* with a the value of a0: TLC then evaluates the argument once instead of *)
(* at every place it is read.                                              *)

LimbBits == 14
Base == 2 ^ LimbBits

RECURSIVE BNorm(_)
BNorm(a0) ==
    CHOOSE r \in {IF a = <<>> THEN <<>>
                  ELSE IF a[Len(a)] = 0 THEN BNorm(SubSeq(a, 1, Len(a) - 1))
                  ELSE a : a \in {a0}} : TRUE

RECURSIVE BFromNat(_)
BFromNat(n0) ==
    CHOOSE r \in {IF n = 0 THEN <<>> ELSE <<n % Base>> \o BFromNat(n \div Base)
                  : n \in {n0}} : TRUE

(* a + b + c from limb i on *)
RECURSIVE BAddC(_, _, _, _)
BAddC(a, b, i0, c0) ==
    CHOOSE r \in {
        IF i > Len(a) /\ i > Len(b) THEN (IF c = 0 THEN <<>> ELSE <<c>>)
        ELSE <<((IF i <= Len(a) THEN a[i] ELSE 0) + (IF i <= Len(b) THEN b[i] ELSE 0) + c)
               % Base>>
             \o BAddC(a, b, i + 1,
                      ((IF i <= Len(a) THEN a[i] ELSE 0)
                       + (IF i <= Len(b) THEN b[i] ELSE 0) + c) \div Base)
        : i \in {i0}, c \in {c0}} : TRUE

BAdd(a0, b0) ==
    CHOOSE r \in {BNorm(BAddC(a, b, 1, 0)) : a \in {a0}, b \in {b0}} : TRUE

(* a - b - c from limb i on, for a >= b *)
RECURSIVE BSubC(_, _, _, _)
BSubC(a, b, i0, c0) ==
    CHOOSE r \in {
        IF i > Len(a) THEN <<>>
        ELSE <<(a[i] - (IF i <= Len(b) THEN b[i] ELSE 0) - c + Base) % Base>>
             \o BSubC(a, b, i + 1,
                      IF a[i] - (IF i <= Len(b) THEN b[i] ELSE 0) - c < 0 THEN 1 ELSE 0)
        : i \in {i0}, c \in {c0}} : TRUE

BSub(a0, b0) ==
    CHOOSE r \in {BNorm(BSubC(a, b, 1, 0)) : a \in {a0}, b \in {b0}} : TRUE

(* the order of the limbs 1..i of a and b, for Len(a) = Len(b) *)
RECURSIVE BCmpFrom(_, _, _)
BCmpFrom(a, b, i0) ==
    CHOOSE r \in {IF i = 0 THEN 0
                  ELSE IF a[i] # b[i] THEN (IF a[i] < b[i] THEN -1 ELSE 1)
                  ELSE BCmpFrom(a, b, i - 1) : i \in {i0}} : TRUE

(* -1, 0, 1 as a < b, a = b, a > b (both normalised) *)
BCmp(a0, b0) ==
    CHOOSE r \in {IF Len(a) # Len(b) THEN (IF Len(a) < Len(b) THEN -1 ELSE 1)
                  ELSE BCmpFrom(a, b, Len(a)) : a \in {a0}, b \in {b0}} : TRUE

(* a * k + c from limb i on, for a small k *)
RECURSIVE BMulSmallC(_, _, _, _)
BMulSmallC(a, k, i0, c0) ==
    CHOOSE r \in {IF i > Len(a) THEN BFromNat(c)
                  ELSE <<(a[i] * k + c) % Base>>
                       \o BMulSmallC(a, k, i + 1, (a[i] * k + c) \div Base)
                  : i \in {i0}, c \in {c0}} : TRUE

BMulSmall(a0, k0) ==
    CHOOSE r \in {BNorm(BMulSmallC(a, k, 1, 0)) : a \in {a0}, k \in {k0}} : TRUE

(* a * (the limbs of b from i on) *)
RECURSIVE BMulFrom(_, _, _)
BMulFrom(a, b, i0) ==
    CHOOSE r \in {
        IF i > Len(b) THEN <<>>
        ELSE BAdd(BMulSmall(a, b[i]),
                  CHOOSE s \in {IF rest = <<>> THEN <<>> ELSE <<0>> \o rest
                                : rest \in {BMulFrom(a, b, i + 1)}} : TRUE)
        : i \in {i0}} : TRUE

BMul(a0, b0) ==
    CHOOSE r \in {IF a = <<>> THEN <<>> ELSE BMulFrom(a, b, 1)
                  : a \in {a0}, b \in {b0}} : TRUE

(* quotient and remainder of the limbs i.. of a by a small n > 0 *)
RECURSIVE BDivModFrom(_, _, _)
BDivModFrom(a, n, i0) ==
    CHOOSE r \in {
        IF i > Len(a) THEN [q |-> <<>>, r |-> 0]
        ELSE CHOOSE d \in {[q |-> <<(hi.r * Base + a[i]) \div n>> \o hi.q,
                            r |-> (hi.r * Base + a[i]) % n]
                           : hi \in {BDivModFrom(a, n, i + 1)}} : TRUE
        : i \in {i0}} : TRUE

BDivMod(a0, n0) ==
    CHOOSE r \in {[q |-> BNorm(d.q), r |-> d.r]
                  : d \in {BDivModFrom(a0, n0, 1)}} : TRUE

RECURSIVE NatBitLen(_)
NatBitLen(n0) ==
    CHOOSE r \in {IF n = 0 THEN 0 ELSE 1 + NatBitLen(n \div 2) : n \in {n0}} : TRUE

BBitLen(a0) ==
    CHOOSE r \in {IF a = <<>> THEN 0
                  ELSE (Len(a) - 1) * LimbBits + NatBitLen(a[Len(a)])
                  : a \in {a0}} : TRUE

BIsOdd(a0) ==
    CHOOSE r \in {a # <<>> /\ a[1] % 2 = 1 : a \in {a0}} : TRUE

BShl(a0, k0) ==
    CHOOSE r \in {IF a = <<>> THEN <<>>
                  ELSE [i \in 1..(k \div LimbBits) |-> 0]
                       \o BMulSmall(a, 2 ^ (k % LimbBits))
                  : a \in {a0}, k \in {k0}} : TRUE

(* floor(a / 2^k), and whether a nonzero bit was shifted out *)
BShr(a0, k0) ==
    CHOOSE r \in {
        CHOOSE s \in {[q |-> d.q,
                       lost |-> (d.r # 0)
                                \/ (\E i \in 1..Len(a) : i <= k \div LimbBits /\ a[i] # 0)]
                      : d \in {BDivMod(IF k \div LimbBits < Len(a)
                                       THEN SubSeq(a, k \div LimbBits + 1, Len(a))
                                       ELSE <<>>,
                                       2 ^ (k % LimbBits))}} : TRUE
        : a \in {a0}, k \in {k0}} : TRUE

----------------------------------------------------------------------------
(* binary64: value = sgn * man * 2^exp with 2^52 <= man < 2^53, or man = 0 *)

Precision == 53

FZero == [sgn |-> 1, man |-> <<>>, exp |-> 0]

(* q, a Precision-bit mantissa that may have been rounded up to 2^Precision *)
FPack(sgn, q0, e) ==
    CHOOSE r \in {IF BBitLen(q) > Precision
                  THEN [sgn |-> sgn, man |-> BShr(q, 1).q, exp |-> e + 1]
                  ELSE [sgn |-> sgn, man |-> q, exp |-> e] : q \in {q0}} : TRUE

(* m with its sh lowest bits rounded away, to nearest and ties to even:    *)
(* s1 is m without its sh - 1 lowest bits, so its last bit is the half     *)
FRoundShift(sgn, s1, e, sh, sticky) ==
    CHOOSE r \in {FPack(sgn,
                        IF BIsOdd(s1.q) /\ (s1.lost \/ sticky \/ BIsOdd(q))
                        THEN BAdd(q, <<1>>) ELSE q,
                        e + sh)
                  : q \in {BShr(s1.q, 1).q}} : TRUE

(* the double nearest to sgn * m * 2^e (+ a little, when sticky), ties to even *)
FRound(sgn0, m0, e0, sticky0) ==
    CHOOSE r \in {
        IF m = <<>> THEN FZero
        ELSE CHOOSE x \in {
                 IF L <= Precision
                 THEN [sgn |-> sgn, man |-> BShl(m, Precision - L),
                       exp |-> e - (Precision - L)]
                 ELSE FRoundShift(sgn, BShr(m, L - Precision - 1), e, L - Precision,
                                  sticky)
                 : L \in {BBitLen(m)}} : TRUE
        : sgn \in {sgn0}, m \in {m0}, e \in {e0}, sticky \in {sticky0}} : TRUE

(* float(n) for a Python int n *)
FromInt(n0) ==
    CHOOSE r \in {IF n >= 0 THEN FRound(1, BFromNat(n), 0, FALSE)
                  ELSE FRound(-1, BFromNat(-n), 0, FALSE) : n \in {n0}} : TRUE

FIsZero(x) == x.man = <<>>

FNeg(x0) ==
    CHOOSE r \in {IF FIsZero(x) THEN x ELSE [x EXCEPT !.sgn = -x.sgn] : x \in {x0}} : TRUE

(* x * 2^k: exact, only the exponent moves *)
FScale(x0, k) ==
    CHOOSE r \in {IF FIsZero(x) THEN x ELSE [x EXCEPT !.exp = x.exp + k]
                  : x \in {x0}} : TRUE

(* x * y *)
FMul(x0, y0) ==
    CHOOSE r \in {IF FIsZero(x) \/ FIsZero(y) THEN FZero
                  ELSE FRound(x.sgn * y.sgn, BMul(x.man, y.man), x.exp + y.exp, FALSE)
                  : x \in {x0}, y \in {y0}} : TRUE

(* n = 2^TwoAdic(n) * OddPart(n) for n > 0 *)
RECURSIVE TwoAdic(_)
TwoAdic(n0) ==
    CHOOSE r \in {IF n % 2 = 1 THEN 0 ELSE 1 + TwoAdic(n \div 2) : n \in {n0}} : TRUE

RECURSIVE OddPart(_)
OddPart(n0) ==
    CHOOSE r \in {IF n % 2 = 1 THEN n ELSE OddPart(n \div 2) : n \in {n0}} : TRUE

(* x / (a * 2^t) for an odd a: the quotient by a is rounded, the power of  *)
(* two only moves the exponent                                             *)
FDivOdd(x, sgn, a, t, k0) ==
    CHOOSE r \in {
        CHOOSE s \in {FRound(sgn, d.q, x.exp - k - t, d.r # 0)
                      : d \in {BDivMod(BShl(x.man, k), a)}} : TRUE
        : k \in {k0}} : TRUE

(* x / n for a Python int n # 0 that float(n) represents exactly *)
FDivInt(x0, n0) ==
    CHOOSE r \in {
        IF FIsZero(x) THEN FZero
        ELSE CHOOSE s \in {FDivOdd(x, IF n < 0 THEN -x.sgn ELSE x.sgn, a,
                                   TwoAdic(IF n < 0 THEN -n ELSE n), NatBitLen(a) + 2)
                           : a \in {OddPart(IF n < 0 THEN -n ELSE n)}} : TRUE
        : x \in {x0}, n \in {n0}} : TRUE

(* x * n for a Python int n *)
FMulInt(x, n) == FMul(x, FromInt(n))

(* the order of the magnitudes: -1, 0, 1 *)
FCmpMag(x0, y0) ==
    CHOOSE r \in {
        IF FIsZero(x) \/ FIsZero(y)
        THEN (IF FIsZero(x) /\ FIsZero(y) THEN 0 ELSE IF FIsZero(x) THEN -1 ELSE 1)
        ELSE IF x.exp # y.exp THEN (IF x.exp < y.exp THEN -1 ELSE 1)
        ELSE BCmp(x.man, y.man)
        : x \in {x0}, y \in {y0}} : TRUE

(* the sign: -1, 0, 1 *)
FSign(x) == IF FIsZero(x) THEN 0 ELSE x.sgn

(* x < y *)
FLess(x0, y0) ==
    CHOOSE r \in {
        IF FSign(x) # FSign(y) THEN FSign(x) < FSign(y)
        ELSE IF FSign(x) = 0 THEN FALSE
        ELSE IF FSign(x) = 1 THEN FCmpMag(x, y) = -1
        ELSE FCmpMag(x, y) = 1
        : x \in {x0}, y \in {y0}} : TRUE

FLeq(x0, y0) ==
    CHOOSE r \in {FLess(x, y) \/ x = y : x \in {x0}, y \in {y0}} : TRUE

(* sx * mx + sy * my, both counted in 2^e, rounded *)
FAddAligned(sx, mx0, sy, my0, e) ==
    CHOOSE r \in {
        IF sx = sy THEN FRound(sx, BAdd(mx, my), e, FALSE)
        ELSE IF BCmp(mx, my) >= 0 THEN FRound(sx, BSub(mx, my), e, FALSE)
        ELSE FRound(sy, BSub(my, mx), e, FALSE)
        : mx \in {mx0}, my \in {my0}} : TRUE

(* x + y *)
FAdd(x0, y0) ==
    CHOOSE r \in {
        IF FIsZero(x) THEN y
        ELSE IF FIsZero(y) THEN x
        ELSE CHOOSE s \in {FAddAligned(x.sgn, BShl(x.man, x.exp - e),
                                       y.sgn, BShl(y.man, y.exp - e), e)
                           : e \in {IF x.exp < y.exp THEN x.exp ELSE y.exp}} : TRUE
        : x \in {x0}, y \in {y0}} : TRUE

(* For rem < den: the next k bits of rem / den, as a number, and what is left *)
RECURSIVE BDivBits(_, _, _)
BDivBits(rem0, den, k0) ==
    CHOOSE r \in {
        IF k = 0 THEN [n |-> 0, r |-> rem]
        ELSE CHOOSE s \in {
                 CHOOSE t \in {[n |-> (IF bit THEN 2 ^ (k - 1) ELSE 0) + rest.n,
                                r |-> rest.r]
                               : rest \in {BDivBits(IF bit THEN BSub(r2, den) ELSE r2,
                                                    den, k - 1)}} : TRUE
                 : r2 \in {BMulSmall(rem, 2)}, bit \in {BCmp(BMulSmall(rem, 2), den) >= 0}}
                 : TRUE
        : rem \in {rem0}, k \in {k0}} : TRUE

(* For rem < den: floor(rem * Base^nl / den) and the remainder *)
RECURSIVE BDivLimbs(_, _, _)
BDivLimbs(rem, den, nl0) ==
    CHOOSE r \in {
        IF nl = 0 THEN [q |-> <<>>, r |-> rem]
        ELSE CHOOSE s \in {
                 CHOOSE t \in {[q |-> lo.q \o <<hi.n>>, r |-> lo.r]
                               : lo \in {BDivLimbs(hi.r, den, nl - 1)}} : TRUE
                 : hi \in {BDivBits(rem, den, LimbBits)}} : TRUE
        : nl \in {nl0}} : TRUE

QuotientLimbs == 4

(* x / y for y # 0, given whether x's mantissa is at least y's *)
FDivMan(x, y, ge) ==
    CHOOSE r \in {FRound(x.sgn * y.sgn, BNorm(d.q \o (IF ge THEN <<1>> ELSE <<>>)),
                         x.exp - y.exp - QuotientLimbs * LimbBits, d.r # <<>>)
                  : d \in {BDivLimbs(IF ge THEN BSub(x.man, y.man) ELSE x.man, y.man,
                                     QuotientLimbs)}} : TRUE

(* x / y for y # 0 *)
FDiv(x0, y0) ==
    CHOOSE r \in {IF FIsZero(x) THEN FZero
                  ELSE FDivMan(x, y, BCmp(x.man, y.man) >= 0)
                  : x \in {x0}, y \in {y0}} : TRUE

(* the limbs of q from i on, as a number *)
RECURSIVE NatOfLimbs(_, _)
NatOfLimbs(q, i) == IF i > Len(q) THEN 0 ELSE q[i] + Base * NatOfLimbs(q, i + 1)

(* int(x): truncation toward zero, for |x| < 2^31 *)
FToInt(x0) ==
    CHOOSE r \in {IF FIsZero(x) THEN 0
                  ELSE x.sgn * NatOfLimbs(BShr(x.man, -x.exp).q, 1)
                  : x \in {x0}} : TRUE

----------------------------------------------------------------------------
(* Python values *)

(* None and raised exceptions are records, as every other value kept in a *)
(* variable is a function: TLC compares functions with one another only   *)
None == [None |-> TRUE]
ZeroDivisionError == [Error |-> "ZeroDivisionError"]
Fail == [Error |-> "ClientError"]

(* the result of a call that has not returned yet *)
Pending == [Pending |-> TRUE]

(* d.get(key, default) *)
Get(d, key, default) == IF key \in DOMAIN d THEN d[key] ELSE default

(* max(a, b): b when it is greater, else a *)
FMax(a, b) == IF FLess(a, b) THEN b ELSE a

----------------------------------------------------------------------------
(* calculate_snapshot_costs *)

(* the literal 0.05 *)
SNAPSHOT_COST_PER_GB_MONTH == FDivInt(FromInt(5), 100)

DaysPerMonth == 30
DaysPerWeek == 7
MonthsPerYear == 12

(* calculate_snapshot_costs with the daily rate taken first, size * (0.05 / *)
(* 30): the same figures on paper, other roundings in binary64             *)
costs_from_daily_rate(snapshot_size_gib) ==
    LET daily_cost   == FMul(snapshot_size_gib,
                             FDivInt(SNAPSHOT_COST_PER_GB_MONTH, DaysPerMonth))
        monthly_cost == FMul(snapshot_size_gib, SNAPSHOT_COST_PER_GB_MONTH)
    IN  [daily_cost |-> daily_cost, weekly_cost |-> FMulInt(daily_cost, DaysPerWeek),
         monthly_cost |-> monthly_cost,
         annual_cost |-> FMulInt(monthly_cost, MonthsPerYear)]

calculate_snapshot_costs(snapshot_size_gib) ==
    LET daily_cost   == FDivInt(FMul(snapshot_size_gib, SNAPSHOT_COST_PER_GB_MONTH),
                                DaysPerMonth)
        weekly_cost  == FMulInt(daily_cost, DaysPerWeek)
        monthly_cost == FMul(snapshot_size_gib, SNAPSHOT_COST_PER_GB_MONTH)
        annual_cost  == FMulInt(monthly_cost, MonthsPerYear)
    IN  [daily_cost |-> daily_cost, weekly_cost |-> weekly_cost,
         monthly_cost |-> monthly_cost, annual_cost |-> annual_cost]

----------------------------------------------------------------------------
(* get_volume_metrics.  A call of cloudwatch.get_metric_statistics raises  *)
(* (Fail) or returns a response, [Datapoints]; a datapoint is its          *)
(* ExtendedStatistics, [p99, p999] (QueueLength is asked for p99 only).    *)

period == 600
BytesPerMB == 1024 * 1024

MetricNames == <<"ReadOps", "WriteOps", "ReadThroughput", "WriteThroughput",
                 "QueueLength">>

P99Key(metric_name) ==
    CASE metric_name = "ReadOps" -> "ReadOps_p99"
      [] metric_name = "WriteOps" -> "WriteOps_p99"
      [] metric_name = "ReadThroughput" -> "ReadThroughput_p99"
      [] metric_name = "WriteThroughput" -> "WriteThroughput_p99"
      [] metric_name = "QueueLength" -> "QueueLength_p99"

PeakKey(metric_name) ==
    CASE metric_name = "ReadOps" -> "ReadOps_peak"
      [] metric_name = "WriteOps" -> "WriteOps_peak"
      [] metric_name = "ReadThroughput" -> "ReadThroughput_peak"
      [] metric_name = "WriteThroughput" -> "WriteThroughput_peak"

(* the statistic of the first point, where the code takes the max *)
FirstStat(datapoints, stat) == datapoints[1][stat]

(* max(point['ExtendedStatistics'][stat] for point in Datapoints) *)
RECURSIVE MaxStat(_, _)
MaxStat(datapoints, stat) ==
    IF Len(datapoints) = 1 THEN datapoints[1][stat]
    ELSE FMax(MaxStat(SubSeq(datapoints, 1, Len(datapoints) - 1), stat),
              datapoints[Len(datapoints)][stat])

(* point['ExtendedStatistics'][stat] raises KeyError for a point without   *)
(* the statistic                                                           *)
KeyError(metric_name, datapoints) ==
    \E i \in 1..Len(datapoints) :
        \/ "p99" \notin DOMAIN datapoints[i]
        \/ metric_name # "QueueLength" /\ "p999" \notin DOMAIN datapoints[i]

(* one pass of the loop body: the keys it adds to results *)
MetricEntry(metric_name, datapoints) ==
    IF datapoints # <<>>
    THEN IF metric_name \in {"ReadOps", "WriteOps"}
         THEN (P99Key(metric_name)  :> FDivInt(MaxStat(datapoints, "p99"), period)) @@
              (PeakKey(metric_name) :> FDivInt(MaxStat(datapoints, "p999"), period))
         ELSE IF metric_name \in {"ReadThroughput", "WriteThroughput"}
         THEN (P99Key(metric_name)  :>
                  FDivInt(FDivInt(MaxStat(datapoints, "p99"), period), BytesPerMB)) @@
              (PeakKey(metric_name) :>
                  FDivInt(FDivInt(MaxStat(datapoints, "p999"), period), BytesPerMB))
         ELSE (P99Key(metric_name) :> MaxStat(datapoints, "p99"))
    ELSE IF metric_name \in {"ReadOps", "WriteOps", "ReadThroughput", "WriteThroughput"}
         THEN (P99Key(metric_name) :> FZero) @@ (PeakKey(metric_name) :> FZero)
         ELSE (P99Key(metric_name) :> FZero)

(* the loop with a try around each call: a dimension that fails is left   *)
(* at 0 and the others are kept                                            *)
RECURSIVE MetricsLoopPerDimension(_, _, _)
MetricsLoopPerDimension(responses, i, results) ==
    IF i > Len(MetricNames) THEN results
    ELSE MetricsLoopPerDimension(responses, i + 1,
             MetricEntry(MetricNames[i],
                         IF responses[MetricNames[i]] = Fail
                            \/ KeyError(MetricNames[i], responses[MetricNames[i]].Datapoints)
                         THEN <<>>
                         ELSE responses[MetricNames[i]].Datapoints)
             @@ results)

(* the loop over metrics.items() from the i-th metric on: the results, or  *)
(* Fail as soon as a call raises or a point cannot be read                 *)
RECURSIVE MetricsLoop(_, _, _)
MetricsLoop(responses, i, results) ==
    IF i > Len(MetricNames) THEN results
    ELSE IF responses[MetricNames[i]] = Fail THEN Fail
    ELSE IF KeyError(MetricNames[i], responses[MetricNames[i]].Datapoints) THEN Fail
    ELSE MetricsLoop(responses, i + 1,
                     MetricEntry(MetricNames[i], responses[MetricNames[i]].Datapoints)
                     @@ results)

(* the except branch's result *)
AllZeroMetrics ==
    [ReadOps_p99 |-> FZero, WriteOps_p99 |-> FZero,
     ReadOps_peak |-> FZero, WriteOps_peak |-> FZero,
     ReadThroughput_p99 |-> FZero, WriteThroughput_p99 |-> FZero,
     ReadThroughput_peak |-> FZero, WriteThroughput_peak |-> FZero,
     QueueLength_p99 |-> FZero]

EmptyResults == [k \in {} |-> FZero]

(* the results with what the dimensions before the failing call gave kept, *)
(* where the code drops them                                               *)
RECURSIVE ResultsUntilFailure(_, _, _)
ResultsUntilFailure(responses, i, results) ==
    IF i > Len(MetricNames) THEN results
    ELSE IF responses[MetricNames[i]] = Fail THEN results @@ AllZeroMetrics
    ELSE IF KeyError(MetricNames[i], responses[MetricNames[i]].Datapoints)
         THEN results @@ AllZeroMetrics
    ELSE ResultsUntilFailure(responses, i + 1,
                             MetricEntry(MetricNames[i], responses[MetricNames[i]].Datapoints)
                             @@ results)

metrics_until_failure(responses) == ResultsUntilFailure(responses, 1, EmptyResults)

get_volume_metrics(responses) ==
    LET results == MetricsLoop(responses, 1, EmptyResults)
    IN  IF results = Fail THEN AllZeroMetrics ELSE results

----------------------------------------------------------------------------
(* analyze_volume_snapshots.  A snapshot as describe_snapshots returns it  *)
(* is [StartTime, FullSnapshotSizeInBytes] (the size key may be missing);  *)
(* SnapshotId, VolumeSize and Description are only copied into             *)
(* snapshot_data and never read again, so they are left out.  StartTime    *)
(* counts hours, FullSnapshotSizeInBytes counts MiB (2^ByteUnitBits bytes).*)

ByteUnitBits == 20
BytesPerGiB == 1024 * 1024 * 1024
HoursPerDay == 24

(* float(n) for n counted in MiB *)
FloatOfBytes(mib) == FRound(1, BFromNat(mib), ByteUnitBits, FALSE)

(* sorted(..., key=StartTime) is stable: x goes behind every element that  *)
(* is not later than it                                                    *)
RECURSIVE InsertByStartTime(_, _)
InsertByStartTime(x, sorted) ==
    IF sorted = <<>> THEN <<x>>
    ELSE IF sorted[Len(sorted)].StartTime <= x.StartTime THEN Append(sorted, x)
    ELSE Append(InsertByStartTime(x, SubSeq(sorted, 1, Len(sorted) - 1)),
                sorted[Len(sorted)])

(* the snapshots as describe_snapshots lists them, where the code sorts    *)
(* them                                                                    *)
AsListed(snapshots) == snapshots

RECURSIVE SortedByStartTime(_)
SortedByStartTime(snapshots) ==
    IF snapshots = <<>> THEN <<>>
    ELSE InsertByStartTime(snapshots[Len(snapshots)],
                           SortedByStartTime(SubSeq(snapshots, 1, Len(snapshots) - 1)))

ActualSizeGib(snap) ==
    FDivInt(FloatOfBytes(Get(snap, "FullSnapshotSizeInBytes", 0)), BytesPerGiB)

SnapshotData(volume_snapshots) ==
    [i \in 1..Len(volume_snapshots) |->
        [time |-> volume_snapshots[i].StartTime,
         actual_size_gib |-> ActualSizeGib(volume_snapshots[i])]]

(* the sizes of all the snapshots added up, where the code takes the last *)
RECURSIVE TotalOfAllSnapshots(_)
TotalOfAllSnapshots(snapshot_data) ==
    IF snapshot_data = <<>> THEN FZero
    ELSE FAdd(TotalOfAllSnapshots(SubSeq(snapshot_data, 1, Len(snapshot_data) - 1)),
              snapshot_data[Len(snapshot_data)].actual_size_gib)

TotalSnapshotSize(snapshot_data) ==
    IF snapshot_data # <<>> THEN snapshot_data[Len(snapshot_data)].actual_size_gib
    ELSE FZero

(* the greatest size of all the snapshots, where the code compares the    *)
(* first and the last only                                                 *)
RECURSIVE LargestOfAll(_)
LargestOfAll(snapshot_data) ==
    IF snapshot_data = <<>> THEN FZero
    ELSE FMax(LargestOfAll(SubSeq(snapshot_data, 1, Len(snapshot_data) - 1)),
              snapshot_data[Len(snapshot_data)].actual_size_gib)

TotalChange(snapshot_data) ==
    IF Len(snapshot_data) >= 2
    THEN LET latest_snapshot == snapshot_data[Len(snapshot_data)]
             first_snapshot  == snapshot_data[1]
         IN  IF FLess(first_snapshot.actual_size_gib, latest_snapshot.actual_size_gib)
             THEN latest_snapshot.actual_size_gib
             ELSE first_snapshot.actual_size_gib
    ELSE IF snapshot_data # <<>> THEN snapshot_data[1].actual_size_gib ELSE FZero

(* timedelta.days: the whole days of a difference of timestamps *)
TimedeltaDays(hours) == hours \div HoursPerDay

(* the days without line 442-443, which turn 0 days into 1 *)
TotalDaysUnforced(snapshot_data) ==
    IF Len(snapshot_data) >= 2
    THEN TimedeltaDays(snapshot_data[Len(snapshot_data)].time - snapshot_data[1].time)
    ELSE 1

TotalDays(snapshot_data) ==
    IF Len(snapshot_data) >= 2
    THEN LET first_snapshot_time == snapshot_data[1].time
             last_snapshot_time  == snapshot_data[Len(snapshot_data)].time
             total_days == TimedeltaDays(last_snapshot_time - first_snapshot_time)
         IN  IF total_days = 0 THEN 1 ELSE total_days
    ELSE 1

AvgDailyChange(total_change, total_days) ==
    IF total_days > 0 THEN FDivInt(total_change, total_days) ELSE FZero

(* the percentage taken as avg_daily_change * 100 / volume_size *)
PercentTimesFirst(avg_daily_change, volume_size) ==
    IF volume_size > 0 THEN FDivInt(FMulInt(avg_daily_change, 100), volume_size)
    ELSE FZero

AvgDailyChangePercent(avg_daily_change, volume_size) ==
    IF volume_size > 0 THEN FMulInt(FDivInt(avg_daily_change, volume_size), 100)
    ELSE FZero

UsagePercentage(total_snapshot_size, volume_size) ==
    IF volume_size > 0 THEN FMulInt(FDivInt(total_snapshot_size, volume_size), 100)
    ELSE FZero

----------------------------------------------------------------------------
(* create_bar, create_volume_graph *)

GraphWidth == 50

(* the number of filled cells of the bar, or the error of value / 0 *)
create_bar(value, max_value, width) ==
    IF FIsZero(max_value) THEN ZeroDivisionError
    ELSE LET bar_width == FToInt(FMulInt(FDiv(value, max_value), width))
         IN  [filled |-> bar_width, empty |-> width - bar_width]

(* The dict analyze_volume_snapshots passes holds no avg_*_ops_* key, so   *)
(* the IOPS part sees 0 everywhere and draws nothing.                      *)
create_volume_graph(volume_data) ==
    LET max_size == FMax(FromInt(volume_data.volume_size),
                         volume_data.total_snapshot_size)
        vol_bar  == create_bar(FromInt(volume_data.volume_size), max_size, GraphWidth)
        snap_bar == create_bar(volume_data.total_snapshot_size, max_size, GraphWidth)
    IN  IF vol_bar = ZeroDivisionError \/ snap_bar = ZeroDivisionError
        THEN ZeroDivisionError
        ELSE IF FLess(FZero, Get(volume_data, "avg_read_ops_p99", FZero))
                \/ FLess(FZero, Get(volume_data, "avg_write_ops_p99", FZero))
        THEN [size |-> <<vol_bar, snap_bar>>, iops |-> TRUE]
        ELSE [size |-> <<vol_bar, snap_bar>>, iops |-> FALSE]

(* the dict analyze_volume_snapshots returns *)
(* locals holds the function's local variables of lines 421-453           *)
Report(volume_id, volume_name, volume_size, volume_snapshots, locals, metrics) ==
    [volume_id |-> volume_id,
     device_name |-> volume_name,
     volume_size |-> volume_size,
     total_snapshot_size |-> locals.total_snapshot_size,
     snapshot_count |-> Len(volume_snapshots),
     usage_percentage |-> locals.usage_percentage,
     avg_daily_change |-> locals.avg_daily_change,
     avg_daily_change_percent |-> locals.avg_daily_change_percent,
     total_change |-> locals.total_change,
     daily_cost |-> locals.costs.daily_cost,
     weekly_cost |-> locals.costs.weekly_cost,
     monthly_cost |-> locals.costs.monthly_cost,
     annual_cost |-> locals.costs.annual_cost,
     ReadOps_p99 |-> metrics.ReadOps_p99,
     WriteOps_p99 |-> metrics.WriteOps_p99,
     ReadOps_peak |-> metrics.ReadOps_peak,
     WriteOps_peak |-> metrics.WriteOps_peak,
     QueueLength_p99 |-> metrics.QueueLength_p99,
     ReadThroughput_p99 |-> metrics.ReadThroughput_p99,
     WriteThroughput_p99 |-> metrics.WriteThroughput_p99,
     ReadThroughput_peak |-> metrics.ReadThroughput_peak,
     WriteThroughput_peak |-> metrics.WriteThroughput_peak]

(* the locals of analyze_volume_snapshots once the costs are computed *)
AnalysisLocals(volume_size, volume_snapshots) ==
    LET snapshot_data       == SnapshotData(volume_snapshots)
        total_snapshot_size == TotalSnapshotSize(snapshot_data)
        total_change        == TotalChange(snapshot_data)
        total_days          == TotalDays(snapshot_data)
        avg_daily_change    == AvgDailyChange(total_change, total_days)
    IN  [snapshot_data |-> snapshot_data,
         total_snapshot_size |-> total_snapshot_size,
         total_change |-> total_change,
         total_days |-> total_days,
         avg_daily_change |-> avg_daily_change,
         avg_daily_change_percent |-> AvgDailyChangePercent(avg_daily_change, volume_size),
         usage_percentage |-> UsagePercentage(total_snapshot_size, volume_size),
         costs |-> calculate_snapshot_costs(total_snapshot_size)]

(* what analyze_volume_snapshots returns when it draws no graph: None for  *)
(* no snapshot, else the report                                            *)
analyze_volume_snapshots(volume_id, volume_name, volume_size, snapshots, responses) ==
    IF snapshots = <<>> THEN None
    ELSE LET volume_snapshots == SortedByStartTime(snapshots)
             locals == AnalysisLocals(volume_size, volume_snapshots)
         IN  Report(volume_id, volume_name, volume_size, volume_snapshots, locals,
                    get_volume_metrics(responses))

----------------------------------------------------------------------------
(* print_consolidated_summary: what it prints below the table, the totals  *)
(* and, when asked for, the FSx sizing recommendations                     *)

(* total = 0; for vol in volumes_data: total += vol[key] *)
RECURSIVE SumInt(_, _)
SumInt(volumes_data, key) ==
    IF volumes_data = <<>> THEN 0
    ELSE SumInt(SubSeq(volumes_data, 1, Len(volumes_data) - 1), key)
         + volumes_data[Len(volumes_data)][key]

(* the sum without the first volume, as a loop over volumes_data[1:] *)
RECURSIVE SumFloatAfterFirst(_, _)
SumFloatAfterFirst(volumes_data, key) ==
    IF Len(volumes_data) <= 1 THEN FZero
    ELSE FAdd(SumFloatAfterFirst(SubSeq(volumes_data, 1, Len(volumes_data) - 1), key),
              volumes_data[Len(volumes_data)][key])

RECURSIVE SumFloat(_, _)
SumFloat(volumes_data, key) ==
    IF volumes_data = <<>> THEN FZero
    ELSE FAdd(SumFloat(SubSeq(volumes_data, 1, Len(volumes_data) - 1), key),
              volumes_data[Len(volumes_data)][key])

(* sum(vol.get(key, 0) for vol in volumes_data) *)
RECURSIVE SumGet(_, _)
SumGet(volumes_data, key) ==
    IF volumes_data = <<>> THEN FZero
    ELSE FAdd(SumGet(SubSeq(volumes_data, 1, Len(volumes_data) - 1), key),
              Get(volumes_data[Len(volumes_data)], key, FZero))

(* The built-in sum of line 310.  The interpreter adds floats one after the *)
(* other up to Python 3.11 and keeps a compensation term (Neumaier) from   *)
(* Python 3.12 on; line 5 imports datetime.UTC, so any build from 3.11 on  *)
(* runs the program and the result is one of the two.                       *)
BuiltinSums == {"plain", "compensated"}

(* one step of the compensated loop: acc = [hi, lo], x the next item *)
CompensatedStep(acc0, x0) ==
    CHOOSE r \in {LET t == FAdd(acc.hi, x)
                  IN  [hi |-> t,
                       lo |-> IF FCmpMag(acc.hi, x) >= 0
                              THEN FAdd(acc.lo, FAdd(FAdd(acc.hi, FNeg(t)), x))
                              ELSE FAdd(acc.lo, FAdd(FAdd(x, FNeg(t)), acc.hi))]
                  : acc \in {acc0}, x \in {x0}} : TRUE

RECURSIVE CompensatedLoop(_, _)
CompensatedLoop(volumes_data, key) ==
    IF Len(volumes_data) = 1 THEN [hi |-> volumes_data[1][key], lo |-> FZero]
    ELSE CompensatedStep(CompensatedLoop(SubSeq(volumes_data, 1, Len(volumes_data) - 1), key),
                         Get(volumes_data[Len(volumes_data)], key, FZero))

SumCompensated(volumes_data, key) ==
    IF volumes_data = <<>> THEN FZero
    ELSE LET acc == CompensatedLoop(volumes_data, key)
         IN  IF FIsZero(acc.lo) THEN acc.hi ELSE FAdd(acc.hi, acc.lo)

builtin_sum(volumes_data, key, build) ==
    IF build = "compensated" THEN SumCompensated(volumes_data, key)
    ELSE SumGet(volumes_data, key)

Totals(volumes_data) ==
    [total_size |-> SumInt(volumes_data, "volume_size"),
     total_read_iops_p99 |-> SumFloat(volumes_data, "ReadOps_p99"),
     total_write_iops_p99 |-> SumFloat(volumes_data, "WriteOps_p99"),
     total_read_iops_peak |-> SumFloat(volumes_data, "ReadOps_peak"),
     total_write_iops_peak |-> SumFloat(volumes_data, "WriteOps_peak"),
     total_read_mbps_p99 |-> SumFloat(volumes_data, "ReadThroughput_p99"),
     total_write_mbps_p99 |-> SumFloat(volumes_data, "WriteThroughput_p99"),
     total_read_mbps_peak |-> SumFloat(volumes_data, "ReadThroughput_peak"),
     total_write_mbps_peak |-> SumFloat(volumes_data, "WriteThroughput_peak")]

(* the recommendations with the capacity taken from the total change of   *)
(* each volume, where the code takes the average change of a day           *)
FsxFromTotalChange(volumes_data, totals, build) ==
    LET total_daily_change == builtin_sum(volumes_data, "total_change", build)
    IN  [total_storage |-> totals.total_size,
         total_daily_change |-> total_daily_change,
         daily_change_percent |->
             IF totals.total_size > 0
             THEN FMulInt(FDivInt(total_daily_change, totals.total_size), 100)
             ELSE FZero,
         sustained_iops |-> FAdd(totals.total_read_iops_p99, totals.total_write_iops_p99),
         peak_iops |-> FAdd(totals.total_read_iops_peak, totals.total_write_iops_peak),
         sustained_mbps |-> FAdd(totals.total_read_mbps_p99, totals.total_write_mbps_p99),
         peak_mbps |-> FAdd(totals.total_read_mbps_peak, totals.total_write_mbps_peak)]

FsxRecommendations(volumes_data, totals, build) ==
    LET total_daily_change == builtin_sum(volumes_data, "avg_daily_change", build)
    IN  [total_storage |-> totals.total_size,
         total_daily_change |-> total_daily_change,
         daily_change_percent |->
             IF totals.total_size > 0
             THEN FMulInt(FDivInt(total_daily_change, totals.total_size), 100)
             ELSE FZero,
         sustained_iops |-> FAdd(totals.total_read_iops_p99, totals.total_write_iops_p99),
         peak_iops |-> FAdd(totals.total_read_iops_peak, totals.total_write_iops_peak),
         sustained_mbps |-> FAdd(totals.total_read_mbps_p99, totals.total_write_mbps_p99),
         peak_mbps |-> FAdd(totals.total_read_mbps_peak, totals.total_write_mbps_peak)]

print_consolidated_summary(volumes_data, show_fsx_recommendations, build) ==
    IF volumes_data = <<>> THEN None
    ELSE LET totals == Totals(volumes_data)
         IN  [totals |-> totals,
              fsx |-> IF show_fsx_recommendations
                      THEN FsxRecommendations(volumes_data, totals, build)
                      ELSE None]

(* export_to_csv: the file written, one row per volume in the order of     *)
(* volumes_data.  A row keeps the identifying columns; the numeric columns *)
(* are formatted text of the report's fields and are not modelled.         *)
export_to_csv(volumes_data) ==
    [rows |-> [i \in 1..Len(volumes_data) |->
                  [volume_id |-> volumes_data[i].volume_id,
                   device_name |-> volumes_data[i].device_name,
                   snapshot_count |-> volumes_data[i].snapshot_count]]]

----------------------------------------------------------------------------
(* The state.  main runs over the attached volumes; pc is its position.    *)
(* frame holds the locals of the running analyze_volume_snapshots call.    *)
(* inputs records what the AWS calls returned for each volume, in order.   *)
(* call is a single call of one function on its own: its argument and,     *)
(* once it has returned, its result.                                       *)

VARIABLES args, volumes, pc, vi, frame, volumes_data, summary, exported,
          inputs, call

vars == <<args, volumes, pc, vi, frame, volumes_data, summary, exported,
          inputs, call>>

runVars == <<args, volumes, pc, vi, frame, volumes_data, summary, exported, inputs>>

----------------------------------------------------------------------------
(* What the AWS calls may return *)

MaxVolumes == 2
MaxSnaps == 3
MaxReports == 3
MaxCostHalfGiB == 160
MaxNegHalfGiB == 4
MaxUlps == 2

MiBPerGiB == 1024

Snap(t, mib) == [StartTime |-> t, FullSnapshotSizeInBytes |-> mib]
Point(a, b) == [p99 |-> FromInt(a), p999 |-> FromInt(b)]
QueuePoint(a) == [p99 |-> FromInt(a)]

Flags == [verbose : BOOLEAN, graph : BOOLEAN, csv : BOOLEAN, fsx : BOOLEAN]
NoFlags == [verbose |-> FALSE, graph |-> FALSE, csv |-> FALSE, fsx |-> FALSE]

(* instance['BlockDeviceMappings'] with n volumes *)
Attached(n) == [i \in 1..n |-> [VolumeId |-> i, DeviceName |-> <<"sd", i>>]]

(* the responses of the five get_metric_statistics calls *)
DataResponses ==
    [m \in {"ReadOps", "WriteOps", "ReadThroughput", "WriteThroughput", "QueueLength"} |->
        [Datapoints |->
            IF m = "QueueLength" THEN <<QueuePoint(3), QueuePoint(2)>>
            ELSE IF m = "ReadOps" THEN <<Point(600, 6000), Point(1500, 4000)>>
            ELSE <<Point(100, 300)>>]]

QueueFails == [DataResponses EXCEPT !["QueueLength"] = Fail]

RunSizes == {0, 100}
RunSnapshotLists ==
    {<<>>, <<Snap(0, 0)>>, <<Snap(120, 35 * MiBPerGiB), Snap(0, 20 * MiBPerGiB)>>}
ReadOpsUnreadable ==
    [DataResponses EXCEPT !["ReadOps"] = [Datapoints |-> <<[p999 |-> FromInt(6000)]>>]]
RunResponses == {DataResponses, QueueFails, ReadOpsUnreadable}

SnapTimes == {0, 12, 120}
SnapSizes == {20 * MiBPerGiB, 35 * MiBPerGiB}
UnitSnapshots ==
    {Snap(t, b) : t \in SnapTimes, b \in SnapSizes} \cup {[StartTime |-> 12]}

RECURSIVE SeqsUpTo(_, _)
SeqsUpTo(S, n) ==
    IF n = 0 THEN {<<>>}
    ELSE LET shorter == SeqsUpTo(S, n - 1)
         IN  shorter \cup {Append(q, x) : q \in {r \in shorter : Len(r) = n - 1}, x \in S}

UnitSizes == {0, 100}
UnitSnapshotLists == SeqsUpTo(UnitSnapshots, MaxSnaps)
UnitResponses == {DataResponses}

----------------------------------------------------------------------------
(* main *)

(* no run of main: the variables of the run rest *)
Idle ==
    /\ args = NoFlags
    /\ pc = "idle"
    /\ volumes = <<>>
    /\ vi = 0
    /\ frame = None
    /\ volumes_data = <<>>
    /\ summary = None
    /\ exported = None
    /\ inputs = <<>>

Init ==
    /\ args \in Flags
    /\ \E n \in 0..MaxVolumes : volumes = Attached(n)
    /\ pc = "main"
    /\ vi = 0
    /\ frame = None
    /\ volumes_data = <<>>
    /\ summary = None
    /\ exported = None
    /\ inputs = <<>>
    /\ call = None

(* lines 580-588: no volume ends the run, else the loop starts *)
GetVolumes ==
    /\ pc = "main"
    /\ pc' = IF volumes = <<>> THEN "no_volumes" ELSE "loop"
    /\ vi' = IF volumes = <<>> THEN vi ELSE 1
    /\ UNCHANGED <<args, volumes, frame, volumes_data, summary, exported, inputs, call>>

(* line 589: the next volume, or the end of the loop *)
Loop ==
    /\ pc = "loop"
    /\ pc' = IF vi <= Len(volumes) THEN "describe" ELSE "summary"
    /\ UNCHANGED <<args, volumes, vi, frame, volumes_data, summary, exported, inputs, call>>

(* lines 383-397: describe_volumes, describe_snapshots, sorted *)
Describe(Sizes, SnapshotLists) ==
    /\ pc = "describe"
    /\ \E size \in Sizes, snapshots \in SnapshotLists :
          /\ frame' = [volume_id |-> volumes[vi].VolumeId,
                       volume_name |-> volumes[vi].DeviceName,
                       volume_size |-> size,
                       volume_snapshots |-> SortedByStartTime(snapshots)]
          /\ inputs' = Append(inputs, [Size |-> size, Snapshots |-> snapshots,
                                       Metrics |-> None])
    /\ pc' = "analyze"
    /\ UNCHANGED <<args, volumes, vi, volumes_data, summary, exported, call>>

(* lines 399-453: no snapshot returns None, which main skips (line 594);   *)
(* else the change, the days, the percentages and the costs                *)
Analyze ==
    /\ pc = "analyze"
    /\ IF frame.volume_snapshots = <<>>
       THEN /\ frame' = None
            /\ vi' = vi + 1
            /\ pc' = "loop"
       ELSE /\ frame' = AnalysisLocals(frame.volume_size, frame.volume_snapshots) @@ frame
            /\ vi' = vi
            /\ pc' = "present"
    /\ UNCHANGED <<args, volumes, volumes_data, summary, exported, inputs, call>>

(* lines 455-494: the volume summary is printed, and with --graph the bars *)
(* are drawn; an error there leaves analyze_volume_snapshots and the loop  *)
(* and is caught at line 609                                               *)
Present ==
    /\ pc = "present"
    /\ IF args.graph
          /\ create_volume_graph([volume_id |-> frame.volume_id,
                                  volume_size |-> frame.volume_size,
                                  total_snapshot_size |-> frame.total_snapshot_size,
                                  daily_cost |-> FZero, weekly_cost |-> FZero,
                                  monthly_cost |-> FZero, annual_cost |-> FZero])
             = ZeroDivisionError
       THEN /\ pc' = "error"
            /\ frame' = None
       ELSE /\ pc' = "metrics"
            /\ frame' = frame
    /\ UNCHANGED <<args, volumes, vi, volumes_data, summary, exported, inputs, call>>

(* line 497 *)
Metrics(Responses) ==
    /\ pc = "metrics"
    /\ \E responses \in Responses :
          /\ frame' = [metrics |-> get_volume_metrics(responses)] @@ frame
          /\ inputs' = [inputs EXCEPT ![vi].Metrics = responses]
    /\ pc' = "build"
    /\ UNCHANGED <<args, volumes, vi, volumes_data, summary, exported, call>>

(* the report put in front of the earlier ones, where the code appends it *)
BuildInFront ==
    /\ pc = "build"
    /\ volumes_data' = <<Report(frame.volume_id, frame.volume_name, frame.volume_size,
                                frame.volume_snapshots, frame, frame.metrics)>>
                       \o volumes_data
    /\ frame' = None
    /\ vi' = vi + 1
    /\ pc' = "loop"
    /\ UNCHANGED <<args, volumes, summary, exported, inputs, call>>

(* lines 499-522 and 594-595: the report is returned and appended *)
Build ==
    /\ pc = "build"
    /\ volumes_data' = Append(volumes_data,
          Report(frame.volume_id, frame.volume_name, frame.volume_size,
                 frame.volume_snapshots, frame, frame.metrics))
    /\ frame' = None
    /\ vi' = vi + 1
    /\ pc' = "loop"
    /\ UNCHANGED <<args, volumes, summary, exported, inputs, call>>

(* lines 597-598 *)
Summary ==
    /\ pc = "summary"
    /\ \E build \in BuiltinSums :
           summary' = IF volumes_data # <<>>
                      THEN print_consolidated_summary(volumes_data, args.fsx, build)
                      ELSE summary
    /\ pc' = "export"
    /\ UNCHANGED <<args, volumes, vi, frame, volumes_data, exported, inputs, call>>

(* lines 600-607 *)
Export ==
    /\ pc = "export"
    /\ exported' = IF args.csv /\ volumes_data # <<>>
                   THEN export_to_csv(volumes_data)
                   ELSE exported
    /\ pc' = "done"
    /\ UNCHANGED <<args, volumes, vi, frame, volumes_data, summary, inputs, call>>

Next ==
    \/ GetVolumes
    \/ Loop
    \/ Describe(RunSizes, RunSnapshotLists)
    \/ Analyze
    \/ Present
    \/ Metrics(RunResponses)
    \/ Build
    \/ Summary
    \/ Export

Spec == Init /\ [][Next]_vars

(* one volume, no flag, every snapshot list up to MaxSnaps *)
AnalyzeInit ==
    /\ args = NoFlags
    /\ volumes = Attached(1)
    /\ pc = "main"
    /\ vi = 0
    /\ frame = None
    /\ volumes_data = <<>>
    /\ summary = None
    /\ exported = None
    /\ inputs = <<>>
    /\ call = None

AnalyzeNext ==
    \/ GetVolumes
    \/ Loop
    \/ Describe(UnitSizes, UnitSnapshotLists)
    \/ Analyze
    \/ Present
    \/ Metrics(UnitResponses)
    \/ Build
    \/ Summary
    \/ Export

AnalyzeSpec == AnalyzeInit /\ [][AnalyzeNext]_vars

----------------------------------------------------------------------------
(* calculate_snapshot_costs called on its own.  The sizes are the          *)
(* multiples of half a GiB from -MaxNegHalfGiB to MaxCostHalfGiB halves,   *)
(* and the doubles that follow 1.5 at up to MaxUlps units in the last      *)
(* place.                                                                  *)

HalfGiB(k) == FDivInt(FromInt(k), 2)

(* the double i units in the last place above x > 0 *)
Ulps(x, i) == [x EXCEPT !.man = BAdd(x.man, BFromNat(i))]

GridSizes == {HalfGiB(k) : k \in (0 - MaxNegHalfGiB)..MaxCostHalfGiB}
NearbySizes == {Ulps(HalfGiB(3), i) : i \in 0..MaxUlps}
CostSizes == GridSizes \cup NearbySizes

CostInit ==
    /\ Idle
    /\ \E size \in CostSizes :
          call = [fn |-> "calculate_snapshot_costs", arg |-> size, ret |-> Pending]

CostCall ==
    /\ call.fn = "calculate_snapshot_costs"
    /\ call.ret = Pending
    /\ call' = [call EXCEPT !.ret = calculate_snapshot_costs(call.arg)]
    /\ UNCHANGED runVars

CostNext == CostCall

CostSpec == CostInit /\ [][CostNext]_vars

----------------------------------------------------------------------------
(* get_volume_metrics called on its own: each of the five calls raises,    *)
(* or returns no datapoint, one, or two.                                   *)

MBytes(n) == n * BytesPerMB

(* the datapoints of a dimension when it has two *)
TwoPoints(metric_name) ==
    CASE metric_name = "ReadOps" -> <<Point(600, 6000), Point(1500, 4000)>>
      [] metric_name = "WriteOps" -> <<Point(1200, 1800), Point(900, 2400)>>
      [] metric_name = "ReadThroughput" -> <<Point(MBytes(600), MBytes(1200)),
                                             Point(1000000, 3000000)>>
      [] metric_name = "WriteThroughput" -> <<Point(7000000, 7000001),
                                              Point(MBytes(30), MBytes(3))>>
      [] metric_name = "QueueLength" -> <<QueuePoint(3), QueuePoint(2)>>

ResponsesOf(metric_name) ==
    {Fail,
     [Datapoints |-> <<>>],
     [Datapoints |-> SubSeq(TwoPoints(metric_name), 1, 1)],
     [Datapoints |-> TwoPoints(metric_name)]}

MetricResponses ==
    [ReadOps : ResponsesOf("ReadOps"), WriteOps : ResponsesOf("WriteOps"),
     ReadThroughput : ResponsesOf("ReadThroughput"),
     WriteThroughput : ResponsesOf("WriteThroughput"),
     QueueLength : ResponsesOf("QueueLength")]

MetricsInit ==
    /\ Idle
    /\ \E responses \in MetricResponses :
          call = [fn |-> "get_volume_metrics", arg |-> responses, ret |-> Pending]

MetricsCall ==
    /\ call.fn = "get_volume_metrics"
    /\ call.ret = Pending
    /\ call' = [call EXCEPT !.ret = get_volume_metrics(call.arg)]
    /\ UNCHANGED runVars

MetricsNext == MetricsCall

MetricsSpec == MetricsInit /\ [][MetricsNext]_vars

----------------------------------------------------------------------------
(* print_consolidated_summary called on its own, on up to MaxReports of    *)
(* the reports of five volumes, in any order.  Volume i has one snapshot   *)
(* and one datapoint per dimension, taken from OpsSamples in turn.         *)

OpsSamples == <<600, 100, 1500, 250, 700>>
SampleSizes == <<100, 0, 8, 500, 16>>

SampleStat(i, d) == OpsSamples[((i + d) % Len(OpsSamples)) + 1]

SampleResponses(i) ==
    [ReadOps |-> [Datapoints |-> <<Point(SampleStat(i, 4), 2 * SampleStat(i, 4))>>],
     WriteOps |-> [Datapoints |-> <<Point(SampleStat(i, 0), 3 * SampleStat(i, 0))>>],
     ReadThroughput |->
         [Datapoints |-> <<Point(1000 * SampleStat(i, 1), 5000 * SampleStat(i, 1))>>],
     WriteThroughput |->
         [Datapoints |-> <<Point(1000 * SampleStat(i, 2), 7000 * SampleStat(i, 2))>>],
     QueueLength |-> [Datapoints |-> <<QueuePoint(i)>>]]

(* the snapshots of a sample volume are three days apart *)
SampleReport(i) ==
    analyze_volume_snapshots(i, <<"sd", i>>, SampleSizes[i],
                             <<Snap(0, MiBPerGiB), Snap(3 * HoursPerDay, (2 * i + 1) * MiBPerGiB)>>,
                             SampleResponses(i))

SampleReports == [i \in 1..Len(OpsSamples) |-> SampleReport(i)]

(* the sequences of up to n different volumes *)
ReportOrders(n) ==
    {o \in SeqsUpTo(1..Len(OpsSamples), n) :
        \A i, j \in 1..Len(o) : i # j => o[i] # o[j]}

SummaryArgs == {[k \in 1..Len(o) |-> SampleReports[o[k]]] : o \in ReportOrders(MaxReports)}

SummaryInit ==
    /\ Idle
    /\ \E volumes_data_arg \in SummaryArgs, fsx \in BOOLEAN, build \in BuiltinSums :
          call = [fn |-> "print_consolidated_summary", arg |-> volumes_data_arg,
                  fsx |-> fsx, build |-> build, ret |-> Pending]

SummaryCall ==
    /\ call.fn = "print_consolidated_summary"
    /\ call.ret = Pending
    /\ call' = [call EXCEPT !.ret = print_consolidated_summary(call.arg, call.fsx, call.build)]
    /\ UNCHANGED runVars

SummaryNext == SummaryCall

SummarySpec == SummaryInit /\ [][SummaryNext]_vars

----------------------------------------------------------------------------
(* The run over the volumes (C1, C2) *)

(* main has ended: normally, or in its except branch *)
Ended == pc \in {"done", "error", "no_volumes"}

HasReport(i) == \E j \in 1..Len(volumes_data) : volumes_data[j].volume_id = i

(* a volume without snapshots has no report *)
EmptyVolumeSkipped ==
    \A i \in 1..Len(inputs) : inputs[i].Snapshots = <<>> => ~HasReport(i)

(* once main has ended, every volume behind one without snapshots was      *)
(* analysed and, if it has snapshots, has its report                       *)
RunContinuesPastEmpty ==
    Ended =>
        \A i \in 1..Len(inputs) :
            inputs[i].Snapshots = <<>> =>
                \A k \in (i + 1)..Len(volumes) :
                    /\ k <= Len(inputs)
                    /\ inputs[k].Snapshots # <<>> => HasReport(k)

(* C1 as stated: a volume whose snapshot list is empty gets no report, and *)
(* the run continues: every later volume is analysed and, if it has        *)
(* snapshots, gets its report.                                             *)
C1_EmptyVolumeSkipped == EmptyVolumeSkipped /\ RunContinuesPastEmpty

(* what holds of C1: the part on the empty volume always, the part on the  *)
(* later volumes in the runs without --graph                               *)
C1_WithoutGraph == EmptyVolumeSkipped /\ (~args.graph => RunContinuesPastEmpty)

(* the run where C1 fails: --graph, a volume without snapshots, then a     *)
(* volume of size 0 whose snapshot stores 0 bytes; the bar's division by   *)
(* max(0, 0) ends the run before the volume is reported                    *)
C1_Crash ==
    /\ pc = "error"
    /\ args.graph
    /\ Len(volumes) = 2
    /\ inputs = <<[Size |-> 0, Snapshots |-> <<>>, Metrics |-> None],
                  [Size |-> 0, Snapshots |-> <<Snap(0, 0)>>, Metrics |-> None]>>
    /\ volumes_data = <<>>

(* the metric calls of the volume failed: one raised, or a datapoint could *)
(* not be read                                                             *)
Unavailable(responses) ==
    /\ responses # None
    /\ \E m \in DOMAIN responses :
          \/ responses[m] = Fail
          \/ responses[m] # Fail /\ KeyError(m, responses[m].Datapoints)

MetricFields ==
    {"ReadOps_p99", "ReadOps_peak", "WriteOps_p99", "WriteOps_peak",
     "ReadThroughput_p99", "ReadThroughput_peak",
     "WriteThroughput_p99", "WriteThroughput_peak", "QueueLength_p99"}

(* the report of each volume that main can meet, when its metric calls     *)
(* succeed                                                                 *)
UnfailedReports ==
    [i \in 1..MaxVolumes |->
        [size \in RunSizes |->
            [snapshots \in RunSnapshotLists |->
                analyze_volume_snapshots(Attached(i)[i].VolumeId, Attached(i)[i].DeviceName,
                                         size, snapshots, DataResponses)]]]

(* the report has 0 in the nine metric fields and, in every other field,   *)
(* what the volume's report holds when the metric calls succeed            *)
DegradedReport(report, i) ==
    /\ report.volume_id = i
    /\ \A k \in MetricFields : report[k] = FZero
    /\ \A k \in DOMAIN report \ MetricFields :
          report[k] = UnfailedReports[i][inputs[i].Size][inputs[i].Snapshots][k]

(* C2: when the metric calls of a volume fail, get_volume_metrics returns  *)
(* 0 in all nine fields, the volume's report is emitted with its snapshot  *)
(* and cost fields as without the failure, and main goes on to the next    *)
(* volume.                                                                 *)
C2_MetricFailureDegrades ==
    \A i \in 1..Len(inputs) :
        Unavailable(inputs[i].Metrics) =>
            IF pc = "build" /\ vi = i
            THEN /\ DOMAIN frame.metrics = MetricFields
                 /\ \A k \in MetricFields : frame.metrics[k] = FZero
            ELSE /\ vi > i
                 /\ \E j \in 1..Len(volumes_data) : DegradedReport(volumes_data[j], i)

(* the QueueLength call of the first volume raised: its report has no      *)
(* metric but its monthly cost of 1.75, and the second volume is reported  *)
(* with its metrics                                                        *)
C2_Witness ==
    /\ pc = "done"
    /\ Len(volumes_data) = 2
    /\ inputs[1].Metrics = QueueFails
    /\ inputs[2].Metrics = DataResponses
    /\ DegradedReport(volumes_data[1], 1)
    /\ volumes_data[1].monthly_cost = FDivInt(FromInt(7), 4)
    /\ volumes_data[2].volume_id = 2
    /\ volumes_data[2].ReadOps_p99 = FDivInt(FromInt(5), 2)

----------------------------------------------------------------------------
(* The analysis of one volume (C3, C4, C5, C6) *)

(* the locals of the analysis are computed and the report is not built yet *)
Analysed == frame # None /\ "total_change" \in DOMAIN frame

(* what describe_snapshots returned for the volume under analysis, and for *)
(* the volume of a report (VolumeId is the volume's place in the list)     *)
CurrentInput == inputs[Len(inputs)]
InputOf(report) == inputs[report.volume_id]

(* the stored size of a snapshot in GiB: its MiB over 1024 *)
GiBOf(snap) ==
    IF "FullSnapshotSizeInBytes" \in DOMAIN snap
    THEN FDivInt(FromInt(snap.FullSnapshotSizeInBytes), MiBPerGiB)
    ELSE FZero

(* the first and the last snapshot by creation time; of snapshots created  *)
(* at the same time the one listed first comes first                       *)
FirstCreated(snaps) ==
    snaps[CHOOSE i \in 1..Len(snaps) :
              \A j \in 1..Len(snaps) :
                  \/ snaps[i].StartTime < snaps[j].StartTime
                  \/ snaps[i].StartTime = snaps[j].StartTime /\ i <= j]

LastCreated(snaps) ==
    snaps[CHOOSE i \in 1..Len(snaps) :
              \A j \in 1..Len(snaps) :
                  \/ snaps[j].StartTime < snaps[i].StartTime
                  \/ snaps[j].StartTime = snaps[i].StartTime /\ j <= i]

(* v is max(first, last) of the stored sizes, the first on a tie *)
ChangeIs(v, snaps) ==
    LET first == GiBOf(FirstCreated(snaps))
        last  == GiBOf(LastCreated(snaps))
    IN  /\ Len(snaps) = 1 => v = GiBOf(snaps[1])
        /\ v = (IF FLess(first, last) THEN last ELSE first)
        /\ FLeq(first, v)
        /\ FLeq(last, v)

(* C3: total_change is the stored size of the only snapshot, and with two  *)
(* or more the last snapshot's size if it is strictly greater than the     *)
(* first's, else the first's: max(first, last), whatever lies between.     *)
C3_TotalChange ==
    /\ Analysed => ChangeIs(frame.total_change, CurrentInput.Snapshots)
    /\ \A j \in 1..Len(volumes_data) :
          ChangeIs(volumes_data[j].total_change, InputOf(volumes_data[j]).Snapshots)

(* 20 GiB, then 35 GiB, then 20 GiB: the report says 20, not the 35 between *)
C3_Witness ==
    /\ Len(volumes_data) = 1
    /\ inputs[1].Snapshots = <<Snap(0, 20 * MiBPerGiB), Snap(12, 35 * MiBPerGiB),
                               Snap(120, 20 * MiBPerGiB)>>
    /\ volumes_data[1].total_change = FromInt(20)

(* the whole days from the first to the last snapshot *)
WholeDays(snaps) ==
    LET hours == LastCreated(snaps).StartTime - FirstCreated(snaps).StartTime
    IN  CHOOSE d \in 0..hours : d * 24 <= hours /\ hours < (d + 1) * 24

(* d is the whole days, or 1 for a single snapshot or for less than a day *)
DaysIs(d, snaps) ==
    /\ d = (IF Len(snaps) < 2 \/ WholeDays(snaps) = 0 THEN 1 ELSE WholeDays(snaps))
    /\ d >= 1

(* C4: total_days is the whole days between the first and the last         *)
(* snapshot, 1 when there is one snapshot or when that count is 0; so it   *)
(* is at least 1, and avg_daily_change is total_change / total_days.       *)
C4_TotalDays ==
    /\ Analysed =>
          /\ DaysIs(frame.total_days, CurrentInput.Snapshots)
          /\ frame.avg_daily_change = FDivInt(frame.total_change, frame.total_days)
    /\ \A j \in 1..Len(volumes_data) :
          \E d \in 1..(1 + WholeDays(InputOf(volumes_data[j]).Snapshots)) :
              /\ DaysIs(d, InputOf(volumes_data[j]).Snapshots)
              /\ volumes_data[j].avg_daily_change = FDivInt(volumes_data[j].total_change, d)

(* two snapshots twelve hours apart: 0 whole days, total_days is 1 and the *)
(* average is the whole change                                             *)
C4_Witness ==
    /\ Analysed
    /\ CurrentInput.Snapshots = <<Snap(12, 35 * MiBPerGiB), Snap(0, 20 * MiBPerGiB)>>
    /\ WholeDays(CurrentInput.Snapshots) = 0
    /\ frame.total_days = 1
    /\ frame.avg_daily_change = FromInt(35)

(* x / volume_size * 100, or 0 for a volume of size 0 *)
PercentOf(x, volume_size) ==
    IF volume_size > 0 THEN FMul(FDivInt(x, volume_size), FromInt(100)) ELSE FZero

(* C5: in every report usage_percentage is total_snapshot_size /           *)
(* volume_size * 100 and avg_daily_change_percent is avg_daily_change /    *)
(* volume_size * 100; both are 0 for volume_size 0, and the analysis of a  *)
(* volume with snapshots always ends in a report.                          *)
C5_Percentages ==
    /\ \A j \in 1..Len(volumes_data) :
          /\ volumes_data[j].volume_size >= 0
          /\ volumes_data[j].usage_percentage
                 = PercentOf(volumes_data[j].total_snapshot_size, volumes_data[j].volume_size)
          /\ volumes_data[j].avg_daily_change_percent
                 = PercentOf(volumes_data[j].avg_daily_change, volumes_data[j].volume_size)
          /\ volumes_data[j].volume_size = 0 =>
                 /\ volumes_data[j].usage_percentage = FZero
                 /\ volumes_data[j].avg_daily_change_percent = FZero
    /\ pc # "error"
    /\ pc = "done" =>
          \A i \in 1..Len(inputs) :
              inputs[i].Snapshots # <<>> =>
                  \E j \in 1..Len(volumes_data) : volumes_data[j].volume_id = i

(* a volume of size 0 with a snapshot of 35 GiB is reported with both      *)
(* percentages 0                                                           *)
C5_Witness ==
    /\ Len(volumes_data) = 1
    /\ volumes_data[1].volume_size = 0
    /\ volumes_data[1].total_snapshot_size = FromInt(35)
    /\ volumes_data[1].avg_daily_change = FromInt(35)
    /\ volumes_data[1].usage_percentage = FZero
    /\ volumes_data[1].avg_daily_change_percent = FZero

(* the spec's example: 100 GiB, 20 GiB at day 0 and 35 GiB at day 5 *)
IsExample(input) ==
    /\ input.Size = 100
    /\ Len(input.Snapshots) = 2
    /\ {input.Snapshots[1], input.Snapshots[2]}
           = {Snap(0, 20 * MiBPerGiB), Snap(5 * HoursPerDay, 35 * MiBPerGiB)}

(* C6: in every report total_snapshot_size is the stored size of the most  *)
(* recent snapshot, snapshot_count is the number of snapshots and the four *)
(* costs are calculate_snapshot_costs of that total_snapshot_size; the     *)
(* example gives total_change 35, total_days 5, avg_daily_change 7,        *)
(* usage_percentage 35 and monthly_cost 1.75.                              *)
C6_ReportFields ==
    /\ \A j \in 1..Len(volumes_data) :
          /\ volumes_data[j].total_snapshot_size
                 = GiBOf(LastCreated(InputOf(volumes_data[j]).Snapshots))
          /\ volumes_data[j].snapshot_count = Len(InputOf(volumes_data[j]).Snapshots)
          /\ [k \in {"daily_cost", "weekly_cost", "monthly_cost", "annual_cost"} |->
                 volumes_data[j][k]]
                 = calculate_snapshot_costs(volumes_data[j].total_snapshot_size)
          /\ IsExample(InputOf(volumes_data[j])) =>
                 /\ volumes_data[j].total_change = FromInt(35)
                 /\ volumes_data[j].avg_daily_change = FromInt(7)
                 /\ volumes_data[j].usage_percentage = FromInt(35)
                 /\ volumes_data[j].monthly_cost = FDivInt(FromInt(175), 100)
    /\ (Analysed /\ IsExample(CurrentInput)) => frame.total_days = 5

(* the example is reported, with the figures the spec gives *)
C6_Witness ==
    /\ Len(volumes_data) = 1
    /\ IsExample(inputs[1])
    /\ volumes_data[1].total_snapshot_size = FromInt(35)
    /\ volumes_data[1].snapshot_count = 2
    /\ volumes_data[1].monthly_cost = FDivInt(FromInt(7), 4)

(* a report whose total_snapshot_size, the latest snapshot's 20 GiB, is    *)
(* neither the sum of the sizes nor total_change, the first's 35 GiB       *)
C6_LatestIsNotChange ==
    /\ Len(volumes_data) = 1
    /\ inputs[1].Snapshots = <<Snap(120, 20 * MiBPerGiB), Snap(0, 35 * MiBPerGiB)>>
    /\ volumes_data[1].total_snapshot_size = FromInt(20)
    /\ volumes_data[1].total_change = FromInt(35)

----------------------------------------------------------------------------
(* The cost figures (C7, C8) *)

CostReturned ==
    /\ call # None
    /\ call.fn = "calculate_snapshot_costs"
    /\ call.ret # Pending

(* the costs of every size, for comparing two sizes *)
CostTable == [size \in CostSizes |-> calculate_snapshot_costs(size)]

(* a = b up to one unit in the last place of b: |a - b| <= |b| * 2^-52 *)
WithinTolerance(a, b) == FCmpMag(FAdd(a, FNeg(b)), FScale(b, 1 - Precision)) <= 0

CostFormulas(size, c) ==
    /\ c.monthly_cost = FMul(size, FDivInt(FromInt(5), 100))
    /\ c.daily_cost = FDivInt(c.monthly_cost, 30)
    /\ c.weekly_cost = FMulInt(c.daily_cost, 7)
    /\ c.annual_cost = FMulInt(c.monthly_cost, 12)

CostsOrdered(c) ==
    /\ FLeq(FZero, c.daily_cost)
    /\ FLeq(FZero, c.weekly_cost)
    /\ FLeq(FZero, c.monthly_cost)
    /\ FLeq(FZero, c.annual_cost)
    /\ FLeq(c.daily_cost, c.weekly_cost)
    /\ FLeq(c.weekly_cost, c.monthly_cost)
    /\ FLeq(c.monthly_cost, c.annual_cost)

(* C7, as the code has it: for every size >= 0 the four figures follow the *)
(* formulas, are non-negative and ordered daily <= weekly <= monthly <=    *)
(* annual; monthly * 12 is the annual cost; daily * 30 is the monthly cost *)
(* up to one unit in the last place; a greater size never has a smaller    *)
(* annual cost, and has a strictly greater one when both sizes are whole   *)
(* numbers of half GiB.                                                    *)
C7_CostFigures ==
    (CostReturned /\ FLeq(FZero, call.arg)) =>
        /\ CostFormulas(call.arg, call.ret)
        /\ CostsOrdered(call.ret)
        /\ FMulInt(call.ret.monthly_cost, 12) = call.ret.annual_cost
        /\ WithinTolerance(FMulInt(call.ret.daily_cost, 30), call.ret.monthly_cost)
        /\ \A s1 \in CostSizes :
              (FLeq(FZero, s1) /\ FLess(s1, call.arg)) =>
                  /\ FLeq(CostTable[s1].annual_cost, call.ret.annual_cost)
                  /\ (s1 \in GridSizes /\ call.arg \in GridSizes) =>
                         FLess(CostTable[s1].annual_cost, call.ret.annual_cost)

(* the costs of 38.5 GiB are returned, and daily * 30 is not the monthly cost *)
C7_Witness ==
    /\ CostReturned
    /\ call.arg = HalfGiB(77)
    /\ FMulInt(call.ret.daily_cost, 30) # call.ret.monthly_cost
    /\ WithinTolerance(FMulInt(call.ret.daily_cost, 30), call.ret.monthly_cost)

(* C7 as stated: daily * 30 == monthly exactly, and the annual cost        *)
(* strictly greater for every greater size                                 *)
C7_AsStated ==
    (CostReturned /\ FLeq(FZero, call.arg)) =>
        /\ CostFormulas(call.arg, call.ret)
        /\ CostsOrdered(call.ret)
        /\ FMulInt(call.ret.monthly_cost, 12) = call.ret.annual_cost
        /\ FMulInt(call.ret.daily_cost, 30) = call.ret.monthly_cost
        /\ \A s1 \in CostSizes :
              (FLeq(FZero, s1) /\ FLess(s1, call.arg)) =>
                  FLess(CostTable[s1].annual_cost, call.ret.annual_cost)

(* the two parts of C7 as stated that fail, each on its own *)
C7_DailyTimes30Exact ==
    (CostReturned /\ FLeq(FZero, call.arg)) =>
        FMulInt(call.ret.daily_cost, 30) = call.ret.monthly_cost

C7_AnnualStrict ==
    (CostReturned /\ FLeq(FZero, call.arg)) =>
        \A s1 \in CostSizes :
            (FLeq(FZero, s1) /\ FLess(s1, call.arg)) =>
                FLess(CostTable[s1].annual_cost, call.ret.annual_cost)

(* the condition the spec has the Cost Model signal *)
InvalidInput == [Error |-> "InvalidInput"]

(* C8 as stated: called with a negative size, the Cost Model fails with    *)
(* InvalidInput instead of returning cost figures                          *)
C8_NegativeSizeFails ==
    (CostReturned /\ FLess(call.arg, FZero)) => call.ret = InvalidInput

----------------------------------------------------------------------------
(* The metric aggregation (C9) *)

MetricsReturned ==
    /\ call # None
    /\ call.fn = "get_volume_metrics"
    /\ call.ret # Pending

(* v is the greatest stat of the datapoints *)
IsGreatest(v, datapoints, stat) ==
    /\ \E i \in 1..Len(datapoints) : datapoints[i][stat] = v
    /\ \A i \in 1..Len(datapoints) : FLeq(datapoints[i][stat], v)

(* v is what the dimension's own datapoints give for stat: 0 for none,     *)
(* else their greatest value divided by div                                *)
FromOwnDatapoints(v, datapoints, stat, div) ==
    IF datapoints = <<>> THEN v = FZero
    ELSE \E g \in {datapoints[i][stat] : i \in 1..Len(datapoints)} :
            /\ IsGreatest(g, datapoints, stat)
            /\ v = (IF div = 1 THEN g ELSE FDivInt(g, div))

NineFields ==
    {"ReadOps_p99", "ReadOps_peak", "WriteOps_p99", "WriteOps_peak",
     "ReadThroughput_p99", "ReadThroughput_peak",
     "WriteThroughput_p99", "WriteThroughput_peak", "QueueLength_p99"}

(* C9: when every call returns its datapoints, empty or not, the result    *)
(* has exactly the nine fields; a dimension without datapoints has 0 for   *)
(* its p99 and its peak; a dimension with datapoints has the greatest p99  *)
(* and p99.9 of its own datapoints per second (ops / 600, bytes / 600 /    *)
(* 2^20 as MB, queue length as it is), whatever the other dimensions hold. *)
C9_AggregatorTotal ==
    (MetricsReturned /\ \A m \in DOMAIN call.arg : call.arg[m] # Fail) =>
        /\ DOMAIN call.ret = NineFields
        /\ \A m \in {"ReadOps", "WriteOps"} :
              /\ FromOwnDatapoints(call.ret[P99Key(m)], call.arg[m].Datapoints, "p99", 600)
              /\ FromOwnDatapoints(call.ret[PeakKey(m)], call.arg[m].Datapoints, "p999", 600)
        /\ \A m \in {"ReadThroughput", "WriteThroughput"} :
              /\ FromOwnDatapoints(call.ret[P99Key(m)], call.arg[m].Datapoints, "p99",
                                   600 * 1024 * 1024)
              /\ FromOwnDatapoints(call.ret[PeakKey(m)], call.arg[m].Datapoints, "p999",
                                   600 * 1024 * 1024)
        /\ FromOwnDatapoints(call.ret.QueueLength_p99, call.arg.QueueLength.Datapoints,
                             "p99", 1)

(* ReadOps and QueueLength have no datapoint, WriteOps has two and the     *)
(* throughputs one: the result holds 0 for the empty ones and 2400 / 600   *)
(* = 4 as the WriteOps peak                                                *)
C9_Witness ==
    /\ MetricsReturned
    /\ call.arg.ReadOps = [Datapoints |-> <<>>]
    /\ call.arg.QueueLength = [Datapoints |-> <<>>]
    /\ call.arg.WriteOps = [Datapoints |-> TwoPoints("WriteOps")]
    /\ call.arg.ReadThroughput = [Datapoints |-> <<Point(MBytes(600), MBytes(1200))>>]
    /\ call.arg.WriteThroughput = [Datapoints |-> <<Point(7000000, 7000001)>>]
    /\ call.ret.ReadThroughput_peak = FromInt(2)
    /\ call.ret.ReadOps_p99 = FZero
    /\ call.ret.ReadOps_peak = FZero
    /\ call.ret.QueueLength_p99 = FZero
    /\ call.ret.WriteOps_peak = FromInt(4)
    /\ call.ret.WriteOps_p99 = FromInt(2)

----------------------------------------------------------------------------
(* The fleet totals (C10) *)

SummaryReturned ==
    /\ call # None
    /\ call.fn = "print_consolidated_summary"
    /\ call.ret # Pending

(* A sum of non-negative doubles without rounding: man * 2^exp, man of any *)
(* size                                                                    *)
ExactZero == [man |-> <<>>, exp |-> 0]

ExactAdd(a, x) ==
    IF FIsZero(x) THEN a
    ELSE IF a.man = <<>> THEN [man |-> x.man, exp |-> x.exp]
    ELSE LET e == IF a.exp < x.exp THEN a.exp ELSE x.exp
         IN  [man |-> BAdd(BShl(a.man, a.exp - e), BShl(x.man, x.exp - e)), exp |-> e]

(* the arithmetic sum of the field over the reports with index in S *)
RECURSIVE ExactSum(_, _, _)
ExactSum(reports, key, S) ==
    IF S = {} THEN ExactZero
    ELSE LET i == CHOOSE j \in S : TRUE
         IN  ExactAdd(ExactSum(reports, key, S \ {i}), reports[i][key])

RECURSIVE IntSum(_, _, _)
IntSum(reports, key, S) ==
    IF S = {} THEN 0
    ELSE LET i == CHOOSE j \in S : TRUE
         IN  IntSum(reports, key, S \ {i}) + reports[i][key]

(* the double x is the number a *)
ExactlyEqual(x, a) ==
    IF a.man = <<>> THEN FIsZero(x)
    ELSE ~FIsZero(x) /\ x.sgn = 1
         /\ LET e == IF a.exp < x.exp THEN a.exp ELSE x.exp
            IN  BShl(a.man, a.exp - e) = BShl(x.man, x.exp - e)

(* |x - a| <= n * 2^-53 * a: what n roundings to nearest can add up to *)
WithinRoundings(x, a, n) ==
    IF a.man = <<>> THEN FIsZero(x)
    ELSE /\ ~FIsZero(x)
         /\ x.sgn = 1
         /\ LET e  == IF a.exp < x.exp THEN a.exp ELSE x.exp
                am == BShl(a.man, a.exp - e)
                xm == BShl(x.man, x.exp - e)
                d  == IF BCmp(am, xm) >= 0 THEN BSub(am, xm) ELSE BSub(xm, am)
            IN  BCmp(BShl(d, Precision), BMulSmall(am, n)) <= 0

(* the float totals and the report field each one sums *)
RateTotals ==
    {<<"total_read_iops_p99", "ReadOps_p99">>, <<"total_write_iops_p99", "WriteOps_p99">>,
     <<"total_read_iops_peak", "ReadOps_peak">>, <<"total_write_iops_peak", "WriteOps_peak">>,
     <<"total_read_mbps_p99", "ReadThroughput_p99">>,
     <<"total_write_mbps_p99", "WriteThroughput_p99">>,
     <<"total_read_mbps_peak", "ReadThroughput_peak">>,
     <<"total_write_mbps_peak", "WriteThroughput_peak">>}

(* the orders the reports of a sequence can come in *)
Reordered(reports) ==
    {[k \in 1..Len(reports) |-> reports[f[k]]] :
        f \in {g \in [1..Len(reports) -> 1..Len(reports)] :
                  \A i, j \in 1..Len(reports) : i # j => g[i] # g[j]}}

(* C10, as the code has it: for an empty sequence no summary is produced;  *)
(* else the total size is the sum of the volume sizes, exactly and in any  *)
(* order of the reports, and each p99 and peak total of the read/write ops *)
(* and throughput is the arithmetic sum of its field over the reports up   *)
(* to the rounding of the additions (at most 2^-53 of the sum for each     *)
(* report), which is not independent of the order.                         *)
C10_TotalsAdditive ==
    SummaryReturned =>
        IF call.arg = <<>> THEN call.ret = None
        ELSE /\ call.ret # None
             /\ call.ret.totals.total_size
                    = IntSum(call.arg, "volume_size", 1..Len(call.arg))
             /\ \A t \in RateTotals :
                    WithinRoundings(call.ret.totals[t[1]],
                                    ExactSum(call.arg, t[2], 1..Len(call.arg)),
                                    Len(call.arg))

(* C10 as stated: every total is the arithmetic sum, and the same in every *)
(* order of the reports                                                    *)
C10_AsStated ==
    SummaryReturned =>
        IF call.arg = <<>> THEN call.ret = None
        ELSE /\ call.ret # None
             /\ call.ret.totals.total_size
                    = IntSum(call.arg, "volume_size", 1..Len(call.arg))
             /\ \A t \in RateTotals :
                    ExactlyEqual(call.ret.totals[t[1]],
                                 ExactSum(call.arg, t[2], 1..Len(call.arg)))
             /\ \A other \in Reordered(call.arg) : Totals(other) = call.ret.totals

(* order alone changes a total: some order of the same reports sums to     *)
(* another double                                                          *)
C10_OrderIndependent ==
    (SummaryReturned /\ call.arg # <<>>) =>
        \A other \in Reordered(call.arg) : Totals(other) = call.ret.totals

(* the reports of volumes 1, 2 and 3 are summed: the sizes add up to 108,  *)
(* the total is within the roundings of the arithmetic sum but is not that *)
(* sum, and another order gives another total                              *)
C10_Witness ==
    /\ SummaryReturned
    /\ call.arg = <<SampleReports[1], SampleReports[2], SampleReports[3]>>
    /\ call.ret.totals.total_size = 108
    /\ \E t \in RateTotals :
          /\ ~ExactlyEqual(call.ret.totals[t[1]], ExactSum(call.arg, t[2], 1..3))
          /\ WithinRoundings(call.ret.totals[t[1]], ExactSum(call.arg, t[2], 1..3), 3)
    /\ \E other \in Reordered(call.arg) : Totals(other) # call.ret.totals

----------------------------------------------------------------------------
(* The sizing recommendations (C11) *)

RecommendationsReturned == SummaryReturned /\ call.ret # None /\ call.fsx

DailyChangeSum == ExactSum(call.arg, "avg_daily_change", 1..Len(call.arg))

(* the figures derived from the capacity and from the totals *)
DerivedFigures(fsx, totals) ==
    /\ fsx.total_storage = IntSum(call.arg, "volume_size", 1..Len(call.arg))
    /\ fsx.daily_change_percent =
          IF fsx.total_storage > 0
          THEN FMulInt(FDivInt(fsx.total_daily_change, fsx.total_storage), 100)
          ELSE FZero
    /\ fsx.sustained_iops = FAdd(totals.total_read_iops_p99, totals.total_write_iops_p99)
    /\ fsx.peak_iops = FAdd(totals.total_read_iops_peak, totals.total_write_iops_peak)
    /\ fsx.sustained_mbps = FAdd(totals.total_read_mbps_p99, totals.total_write_mbps_p99)
    /\ fsx.peak_mbps = FAdd(totals.total_read_mbps_peak, totals.total_write_mbps_peak)

(* without the flag no figure is produced and the totals are those of the *)
(* call with the flag                                                      *)
NothingWithoutFlag ==
    (SummaryReturned /\ call.ret # None /\ ~call.fsx) =>
        /\ call.ret.fsx = None
        /\ call.ret.totals = print_consolidated_summary(call.arg, TRUE, call.build).totals

(* C11, as the code has it: with the sizing-recommendation flag the        *)
(* recommended capacity is the sum of avg_daily_change over the reports up *)
(* to the rounding of the additions (at most 2^-53 of the sum for each     *)
(* report; the last bits depend on the interpreter's built-in sum), its    *)
(* percentage is that capacity / total volume size * 100 (0 when the total *)
(* size is 0), sustained IOPS is total read p99 + total write p99 IOPS,    *)
(* peak IOPS is total read peak + total write peak IOPS, and sustained and *)
(* peak throughput likewise; without the flag none of these figures is     *)
(* produced and the totals are unchanged.                                  *)
C11_Recommendations ==
    /\ RecommendationsReturned =>
          /\ WithinRoundings(call.ret.fsx.total_daily_change, DailyChangeSum, Len(call.arg))
          /\ DerivedFigures(call.ret.fsx, call.ret.totals)
    /\ NothingWithoutFlag

(* C11 as stated: the recommended capacity equals the sum of               *)
(* avg_daily_change over all reports, and the other figures and the        *)
(* behaviour without the flag are as above.                                *)
C11_AsStated ==
    /\ RecommendationsReturned =>
          /\ ExactlyEqual(call.ret.fsx.total_daily_change, DailyChangeSum)
          /\ DerivedFigures(call.ret.fsx, call.ret.totals)
    /\ NothingWithoutFlag

(* the recommendations for the volumes 3, 4 and 2 on an interpreter that   *)
(* adds one after the other: 7/3 + 9/3 + 5/3 GiB a day, a capacity that is *)
(* near to but not the sum of the three, 508 GiB of volumes, and sustained *)
(* IOPS that are the two p99 totals added                                  *)
C11_Witness ==
    /\ RecommendationsReturned
    /\ call.build = "plain"
    /\ call.arg = <<SampleReports[3], SampleReports[4], SampleReports[2]>>
    /\ call.ret.fsx.total_storage = 508
    /\ ~ExactlyEqual(call.ret.fsx.total_daily_change, DailyChangeSum)
    /\ WithinRoundings(call.ret.fsx.total_daily_change, DailyChangeSum, 3)
    /\ ~FIsZero(call.ret.fsx.daily_change_percent)
    /\ call.ret.fsx.sustained_iops =
          FAdd(call.ret.totals.total_read_iops_p99, call.ret.totals.total_write_iops_p99)

----------------------------------------------------------------------------
(* The presentation flags (C12) *)

(* the report of each volume that main can meet, for each answer of the    *)
(* metric calls, as analyze_volume_snapshots builds it without any flag    *)
RunReports ==
    [i \in 1..MaxVolumes |->
        [size \in RunSizes |->
            [snapshots \in RunSnapshotLists |->
                [responses \in RunResponses |->
                    analyze_volume_snapshots(Attached(i)[i].VolumeId,
                                             Attached(i)[i].DeviceName,
                                             size, snapshots, responses)]]]]

(* the reports of the first n volumes, which depend on what the volumes,   *)
(* their snapshots and their metrics are and on nothing else; a volume     *)
(* with snapshots whose report was never built has None in its place       *)
RECURSIVE ReportsOfInputs(_)
ReportsOfInputs(n) ==
    IF n = 0 THEN <<>>
    ELSE IF n > Len(inputs) THEN Append(ReportsOfInputs(n - 1), None)
    ELSE IF inputs[n].Snapshots = <<>> THEN ReportsOfInputs(n - 1)
    ELSE IF inputs[n].Metrics = None THEN Append(ReportsOfInputs(n - 1), None)
    ELSE Append(ReportsOfInputs(n - 1),
                RunReports[n][inputs[n].Size][inputs[n].Snapshots][inputs[n].Metrics])

FlagsDoNotAlterReports ==
    Ended => /\ pc # "error"
             /\ volumes_data = ReportsOfInputs(Len(volumes))

(* C12 as stated: whatever the verbose, graph, CSV and sizing flags are,   *)
(* the run ends without crashing and its sequence of reports is the one    *)
(* that the volumes, snapshots and metric data determine, a volume of size *)
(* 0 with a snapshot of size 0 included.                                   *)
C12_FlagsDoNotAlterReports == FlagsDoNotAlterReports

(* what holds of C12: the verbose, CSV and sizing flags alter no report,   *)
(* and the graph flag alters none unless a volume has size 0 and its       *)
(* latest snapshot stores 0 bytes                                          *)
C12_UnlessZeroGraph ==
    (\/ ~args.graph
     \/ \A i \in 1..Len(inputs) :
           \/ inputs[i].Size # 0
           \/ Snap(0, 0) \notin {inputs[i].Snapshots[k] : k \in DOMAIN inputs[i].Snapshots})
        => FlagsDoNotAlterReports

(* the run where C12 fails: --graph and one volume of size 0 whose only    *)
(* snapshot stores 0 bytes; the division by max(0, 0) in create_bar ends   *)
(* the run without the report that the same volume gets without --graph    *)
C12_ZeroSizeCrash ==
    /\ pc = "error"
    /\ args.graph
    /\ Len(volumes) = 1
    /\ inputs = <<[Size |-> 0, Snapshots |-> <<Snap(0, 0)>>, Metrics |-> None]>>
    /\ volumes_data = <<>>
    /\ RunReports[1][0][<<Snap(0, 0)>>][DataResponses] # None

----------------------------------------------------------------------------
(* One failed metric call (C13) *)

Dimensions == {MetricNames[i] : i \in 1..Len(MetricNames)}

(* the call for the dimension failed and the calls for the other           *)
(* dimensions returned datapoints                                          *)
OnlyFailed(failed) ==
    /\ MetricsReturned
    /\ call.arg[failed] = Fail
    /\ \A m \in DOMAIN call.arg \ {failed} :
          call.arg[m] # Fail /\ call.arg[m].Datapoints # <<>>

(* the fields of the dimension in the result *)
FieldsOf(m) == IF m = "QueueLength" THEN {P99Key(m)} ELSE {P99Key(m), PeakKey(m)}

(* the fields of the dimension hold what its datapoints give *)
KeepsOwnValues(m) ==
    LET div == IF m \in {"ReadOps", "WriteOps"} THEN 600
               ELSE IF m = "QueueLength" THEN 1 ELSE 600 * 1024 * 1024
    IN  /\ FromOwnDatapoints(call.ret[P99Key(m)], call.arg[m].Datapoints, "p99", div)
        /\ m # "QueueLength" =>
              FromOwnDatapoints(call.ret[PeakKey(m)], call.arg[m].Datapoints, "p999", div)

(* C13, as the code has it: when the retrieval for one dimension fails     *)
(* while the retrievals for the other dimensions succeed with datapoints,  *)
(* get_volume_metrics still returns its nine fields, so that the run       *)
(* continues, and all nine are 0: those of the failed dimension and those  *)
(* of the other dimensions, whose datapoints are dropped.                  *)
C13_FailureZeroesAll ==
    \A failed \in Dimensions :
        OnlyFailed(failed) =>
            /\ DOMAIN call.ret = NineFields
            /\ \A k \in NineFields : call.ret[k] = FZero

(* C13 as stated: when the retrieval for one dimension fails while the     *)
(* retrievals for the other dimensions succeed with datapoints, the        *)
(* failed dimension's fields are 0 in the result and the other dimensions  *)
(* keep the values aggregated from their datapoints.                       *)
C13_AsStated ==
    \A failed \in Dimensions :
        OnlyFailed(failed) =>
            /\ DOMAIN call.ret = NineFields
            /\ \A k \in FieldsOf(failed) : call.ret[k] = FZero
            /\ \A m \in DOMAIN call.arg \ {failed} : KeepsOwnValues(m)

(* the QueueLength call, the last of the five, failed after the other four *)
(* had returned two datapoints each: the read ops, 1500 / 600 = 2.5 a      *)
(* second in the datapoints, are 0 in the result as is every other field   *)
C13_Witness ==
    /\ OnlyFailed("QueueLength")
    /\ \A m \in DOMAIN call.arg \ {"QueueLength"} :
          call.arg[m] = [Datapoints |-> TwoPoints(m)]
    /\ ~KeepsOwnValues("ReadOps")
    /\ call.ret.ReadOps_p99 = FZero
    /\ call.ret.QueueLength_p99 = FZero

----------------------------------------------------------------------------
(* One volume after the other (C14) *)

(* the place of the volume in the list of the attached volumes *)
PlaceOf(volume_id) == CHOOSE k \in 1..Len(volumes) : volumes[k].VolumeId = volume_id

(* the reports are in the order of the attached volumes, at most one for   *)
(* each volume, and none for a volume that main has not reached            *)
InAttachedOrder(reports) ==
    /\ \A j \in 1..Len(reports) :
          \E k \in 1..Len(volumes) : volumes[k].VolumeId = reports[j].volume_id
    /\ \A i, j \in 1..Len(reports) :
          i < j => PlaceOf(reports[i].volume_id) < PlaceOf(reports[j].volume_id)

(* a step of a volume is the step that follows in snapshot listing, change *)
(* analysis, (presentation,) metric retrieval, report build; the volume    *)
(* changes only when its last step is made, to the next one                *)
StepsInOrder ==
    /\ pc = "loop" => /\ vi' = vi
                      /\ pc' = IF vi <= Len(volumes) THEN "describe" ELSE "summary"
    /\ pc = "describe" => /\ vi' = vi /\ pc' = "analyze"
                          /\ Len(inputs) = vi - 1 /\ Len(inputs') = vi
    /\ pc = "analyze" =>
          IF inputs[vi].Snapshots = <<>>
          THEN vi' = vi + 1 /\ pc' = "loop" /\ volumes_data' = volumes_data
          ELSE vi' = vi /\ pc' = "present"
    /\ pc = "present" => vi' = vi /\ pc' \in {"metrics", "error"}
    /\ pc = "metrics" => vi' = vi /\ pc' = "build"
    /\ pc = "build" =>
          /\ vi' = vi + 1 /\ pc' = "loop"
          /\ Len(volumes_data') = Len(volumes_data) + 1
          /\ volumes_data'[Len(volumes_data')].volume_id = volumes[vi].VolumeId
    /\ pc \notin {"describe", "analyze", "present", "metrics", "build"} =>
          pc' \notin {"analyze", "present", "metrics", "build"}
    /\ pc \in {"summary", "export", "done", "error", "no_volumes"} => pc' # "describe"

(* the metrics of a volume are retrieved in its metric step and in no      *)
(* other, when none were retrieved for it before, and stay what they are   *)
MetricsOnce ==
    /\ \A i \in 1..Len(inputs) :
          inputs[i].Metrics # None => /\ i <= Len(inputs')
                                      /\ inputs'[i].Metrics = inputs[i].Metrics
    /\ \A i \in 1..Len(inputs') :
          (inputs'[i].Metrics # None /\ (i > Len(inputs) \/ inputs[i].Metrics = None)) =>
              /\ pc = "metrics" /\ vi = i
              /\ inputs[i].Snapshots # <<>>
    /\ pc = "metrics" => inputs[vi].Metrics = None /\ inputs'[vi].Metrics # None

(* the summarizer and the CSV exporter are given the reports as they are   *)
(* in the sequence                                                         *)
HandedInOrder ==
    /\ summary' # summary =>
          /\ pc = "summary"
          /\ InAttachedOrder(volumes_data)
          /\ summary'.totals.total_size = IntSum(volumes_data, "volume_size",
                                                  1..Len(volumes_data))
    /\ exported' # exported =>
          /\ pc = "export"
          /\ InAttachedOrder(volumes_data)
          /\ Len(exported'.rows) = Len(volumes_data)
          /\ \A j \in 1..Len(volumes_data) :
                exported'.rows[j].volume_id = volumes_data[j].volume_id

(* C14: the volumes are processed one after the other: the steps of a      *)
(* volume come in the order snapshot listing, change analysis, metric      *)
(* retrieval, report build, all before any step of the next volume; the    *)
(* metrics are retrieved at most once for a volume, and never for a volume *)
(* without snapshots; the reports given to the summarizer and to the CSV   *)
(* exporter are in the order of the attached volumes, at most one for each *)
(* volume.                                                                 *)
C14_OneVolumeAtATime ==
    [][StepsInOrder /\ MetricsOnce /\ HandedInOrder /\ InAttachedOrder(volumes_data')]_vars

(* a run with --csv over two volumes that both have snapshots has ended:   *)
(* the metrics of both were retrieved, and the reports, the summary's      *)
(* total size and the rows of the CSV file are those of the first and then *)
(* of the second volume                                                    *)
C14_Witness ==
    /\ pc = "done"
    /\ args.csv
    /\ Len(volumes) = 2
    /\ \A i \in 1..2 : inputs[i].Snapshots # <<>> /\ inputs[i].Metrics # None
    /\ inputs[1].Size = 100 /\ inputs[2].Size = 0
    /\ <<volumes_data[1].volume_id, volumes_data[2].volume_id>> = <<1, 2>>
    /\ Len(volumes_data) = 2
    /\ summary.totals.total_size = 100
    /\ <<exported.rows[1].volume_id, exported.rows[2].volume_id>> = <<1, 2>>

----------------------------------------------------------------------------
(* The order of the listing (C15) *)

DistinctTimes(snaps) ==
    \A i, j \in 1..Len(snaps) : i # j => snaps[i].StartTime # snaps[j].StartTime

(* the report of the volume for each listing with distinct timestamps *)
ReportsOfListing ==
    [size \in UnitSizes |->
        [snapshots \in {l \in UnitSnapshotLists : DistinctTimes(l)} |->
            analyze_volume_snapshots(Attached(1)[1].VolumeId, Attached(1)[1].DeviceName,
                                     size, snapshots, DataResponses)]]

(* the snapshots in use are those of the listing, the earliest first and   *)
(* the most recent last                                                    *)
EarliestAndLatestUsed(used, listed) ==
    /\ Len(used) = Len(listed)
    /\ \A x \in {listed[k] : k \in 1..Len(listed)} : \E k \in 1..Len(used) : used[k] = x
    /\ \A k \in 1..Len(listed) :
          /\ used[1].StartTime <= listed[k].StartTime
          /\ listed[k].StartTime <= used[Len(used)].StartTime

(* C15: for a listing of snapshots with pairwise distinct timestamps, the  *)
(* report (total_snapshot_size, total_change, avg_daily_change,            *)
(* percentages, costs, snapshot_count and the metrics) and the total_days  *)
(* that the analysis divides by are the same for every order in which      *)
(* describe_snapshots returns the snapshots, and the first and last        *)
(* snapshot that the analysis uses are the earliest and the most recent.   *)
C15_ListingOrderIrrelevant ==
    /\ (Analysed /\ DistinctTimes(CurrentInput.Snapshots)) =>
          /\ EarliestAndLatestUsed(frame.volume_snapshots, CurrentInput.Snapshots)
          /\ frame.total_snapshot_size = GiBOf(LastCreated(CurrentInput.Snapshots))
          /\ \A other \in Reordered(CurrentInput.Snapshots) :
                TotalDays(SnapshotData(SortedByStartTime(other))) = frame.total_days
    /\ \A j \in 1..Len(volumes_data) :
          DistinctTimes(InputOf(volumes_data[j]).Snapshots) =>
              \A other \in Reordered(InputOf(volumes_data[j]).Snapshots) :
                  ReportsOfListing[InputOf(volumes_data[j]).Size][other] = volumes_data[j]

(* the listing returned the snapshot of hour 120 first, then that of hour  *)
(* 0 and that of hour 12: the report counts 3 snapshots, 7 GiB a day and   *)
(* has the 20 GiB of the snapshot of hour 120 as the total snapshot size,  *)
(* as the report of the listing in the order of creation has               *)
C15_Witness ==
    /\ Len(volumes_data) = 1
    /\ inputs[1].Snapshots = <<Snap(120, 20 * MiBPerGiB), Snap(0, 35 * MiBPerGiB),
                               Snap(12, 35 * MiBPerGiB)>>
    /\ volumes_data[1].snapshot_count = 3
    /\ volumes_data[1].avg_daily_change = FromInt(7)
    /\ volumes_data[1].total_snapshot_size = FromInt(20)
    /\ volumes_data[1].total_change = FromInt(35)
    /\ volumes_data[1] =
          ReportsOfListing[inputs[1].Size][<<Snap(0, 35 * MiBPerGiB), Snap(12, 35 * MiBPerGiB),
                                             Snap(120, 20 * MiBPerGiB)>>]

====
